---- MODULE Spec2Model ----
(***************************************************************************)
(* A model of the skyobject Pack of canhdoan/cxo: the write buffer         *)
(* (unsaved), the read cache, the objects bucket of the database, the      *)
(* Root's top-level references and the operations of Pack that work on     *)
(* them (get, add, set, Save, init, Refs, RefByIndex, Append, Pop).        *)
(*                                                                         *)
(* The database (package data), the Root and the Dynamic reference are     *)
(* not part of the modelled sources; they are modelled from the            *)
(* specification at the interface the Pack uses.                           *)
(*                                                                         *)
(* Next to the Pack the module models the Container of package skyobjects  *)
(* (Save, SaveSchema, Get, GetAllOfSchema over its database) and the Node  *)
(* of package node (Start, the connect callback, the handle loop, Close).  *)
(* The three are separate objects: no operation of one touches another.    *)
(***************************************************************************)
EXTENDS Integers, Sequences, FiniteSets, TLC

(***************************************************************************)
(* Bounds of the model.                                                    *)
(***************************************************************************)
\* longest list of top-level references of the Root
MaxRefs == 2
\* largest number of objects given to one Append call
MaxObjs == 2
\* most events of one kind that wait for the handle loop of the Node
MaxPending == 1

VARIABLES
    flags,      \* Pack.flags: the unpacking flags that are set
    unsaved,    \* Pack.unsaved: map[cipher.SHA256][]byte, the write buffer
    cache,      \* Pack.cache: the entries folded in by Save
    store,      \* the objects bucket of the database (c.DB())
    refs,       \* Root.Refs: the top-level Dynamic references
    rTime,      \* Root.Time
    rSeq,       \* Root.Seq
    phase,      \* "new" before Pack.init, then "ready" or "failed"
    ret,        \* the last call on the Pack and what it returned
    ds,         \* Container.ds: the records of the Container's database
    schemas,    \* Container.schemas: the name of every schema saved
    cret,       \* what the last call on the Container returned
    started,    \* what Node.Start did: "new" before it, then "ok", "rpcErr"
                \* (the node runs, the error of the RPC is returned) or
                \* "listenErr" (nothing runs)
    rpc,        \* Node.rpc: "off", "conf" (enabled, not started), "on",
                \* "failed", "closed"
    quit,       \* Node.quit is closed
    done,       \* how many times Node.done was closed
    listening,  \* the pool listens
    hpc,        \* where the handle goroutine is
    cpc,        \* where the caller of Close is
    pending,    \* the events that wait, by kind
    db,         \* Node.db: the keys of the node's database
    conn,       \* the last connection the connect callback was called for
    sent        \* the Announce messages sent for it, in order

\* the variables of the Pack
packVars == <<flags, unsaved, cache, store, refs, rTime, rSeq, phase, ret>>

\* the variables of the Container
containerVars == <<ds, schemas, cret>>

\* the variables of the Node
nodeVars ==
    <<started, rpc, quit, done, listening, hpc, cpc, pending, db, conn, sent>>

vars ==
    <<flags, unsaved, cache, store, refs, rTime, rSeq, phase, ret,
      ds, schemas, cret,
      started, rpc, quit, done, listening, hpc, cpc, pending, db, conn, sent>>

(***************************************************************************)
(* Values.                                                                 *)
(***************************************************************************)
\* encoded objects: non-empty byte strings.  The Pack never looks into the
\* bytes (it hashes them, copies them and compares them with nil), so two
\* distinct objects are enough for keys and values that agree or differ
Payloads == {<<1>>, <<2>>}

\* time.Now().UnixNano(): what the clock reads when Save is called.  No
\* modelled operation reads Root.Time, so one reading later than the time
\* of the Root the Pack is opened with (0) stands for all of them
Now == {1}

\* a nil []byte
NilBytes == <<>>

\* cipher.SumSHA256: the digest of a byte string; distinct
\* byte strings have distinct digests
SumSHA256(val) == <<"sha256", val>>

Hashes == {SumSHA256(v) : v \in Payloads}

\* cipher.SHA256{}: the zero hash of a blank Dynamic
ZeroHash == <<"sha256", NilBytes>>

\* the flags of the Pack that steer the modelled operations
Flags == {"EntireTree", "ViewOnly"}

\* a Go map without entries
EmptyMap == [k \in {} |-> NilBytes]

\* errors: the nil error, the package's errors, the "object not found"
\* error of get, errors of the database and of the registry
Err(kind, key) == [kind |-> kind, key |-> key]
NilErr == Err("nil", ZeroHash)
ErrViewOnlyTree == Err("view only tree", ZeroHash)
ErrIndexOutOfRange == Err("index out of range", ZeroHash)
ErrNotFound(key) == Err("object not found", key)
ErrTx == Err("transaction failed", ZeroHash)
ErrNotRegistered == Err("type is not registered", ZeroHash)

(***************************************************************************)
(* The Dynamic reference.  wn is walkNode != nil (the reference is         *)
(* unpacked), value is whether the walkNode holds the value of the object, *)
(* pos is the place the walkNode records: <<>> when detached, <<i>> when   *)
(* attached at index i (counted from 0) of Root.Refs.  A Dynamic is made   *)
(* with a value exactly if it is made with a walkNode; only Pop gives a    *)
(* walkNode to a reference before the value is there.                      *)
(***************************************************************************)
Dynamic(hash, wn, pos) ==
    [hash |-> hash, wn |-> wn, value |-> wn, pos |-> pos]

\* Dynamic{}
BlankDynamic == Dynamic(ZeroHash, FALSE, <<>>)

\* (*Dynamic).Attach(upper, i)
Attach(dr, i) == [dr EXCEPT !.pos = <<i>>]

\* (*Dynamic).Detach()
Detach(dr) == [dr EXCEPT !.pos = <<>>]

(***************************************************************************)
(* The database.                                                           *)
(***************************************************************************)
\* tx.Objects().Get(key): nil if there is no such object
ObjectsGet(objs, key) == IF key \in DOMAIN objs THEN objs[key] ELSE NilBytes

\* tx.Objects().SetMap(m)
SetMap(objs, m) ==
    [k \in DOMAIN objs \cup DOMAIN m |-> IF k \in DOMAIN m THEN m[k] ELSE objs[k]]

\* DB().Update(fn): the objects after the transaction in which fn wrote
\* written; all of it is there if the transaction commits and none if not
Update(objs, written, commits) == IF commits THEN written ELSE objs

(***************************************************************************)
(* Pack.get, Pack.add, Pack.set                                            *)
(***************************************************************************)
\* what a call returns: the value, the error, and the transactions it
\* opened on the database
Ret(op, arg, val, err, views, updates) ==
    [op |-> op, arg |-> arg, val |-> val, err |-> err,
     views |-> views, updates |-> updates]

\* get as it would be if the database were asked first
getResult_storeFirst(u, objs, key) ==
    IF key \in DOMAIN objs
    THEN [val |-> objs[key], err |-> NilErr, views |-> 1]
    ELSE IF key \in DOMAIN u
         THEN [val |-> u[key], err |-> NilErr, views |-> 1]
         ELSE [val |-> NilBytes, err |-> ErrNotFound(key), views |-> 1]

\* the result of p.get(key): the unsaved value with no database access,
\* otherwise the stored one, read in one View transaction
getResult(u, objs, key) ==
    IF key \in DOMAIN u
    THEN [val |-> u[key], err |-> NilErr, views |-> 0]
    ELSE LET val == ObjectsGet(objs, key)
         IN  [val |-> val,
              err |-> IF val = NilBytes THEN ErrNotFound(key) ELSE NilErr,
              views |-> 1]

get(key) ==
    /\ phase = "ready"
    /\ LET r == getResult(unsaved, store, key)
       IN  ret' = Ret("get", key, r.val, r.err, r.views, 0)
    /\ UNCHANGED <<flags, unsaved, cache, store, refs, rTime, rSeq, phase>>
    /\ UNCHANGED <<containerVars, nodeVars>>

\* set as it would be if a key that is staged kept its value
setResult_keepsOld(u, key, val) ==
    [k \in DOMAIN u \cup {key} |-> IF k \in DOMAIN u THEN u[k] ELSE val]

\* p.unsaved[key] = val
setResult(u, key, val) ==
    [k \in DOMAIN u \cup {key} |-> IF k = key THEN val ELSE u[k]]

set(key, val) ==
    /\ phase = "ready"
    /\ unsaved' = setResult(unsaved, key, val)
    /\ ret' = Ret("set", key, val, NilErr, 0, 0)
    /\ UNCHANGED <<flags, cache, store, refs, rTime, rSeq, phase>>
    /\ UNCHANGED <<containerVars, nodeVars>>

\* the key add stages val under
addKey(val) == SumSHA256(val)

add(val) ==
    /\ phase = "ready"
    /\ unsaved' = setResult(unsaved, addKey(val), val)
    /\ ret' = Ret("add", val, addKey(val), NilErr, 0, 0)
    /\ UNCHANGED <<flags, cache, store, refs, rTime, rSeq, phase>>
    /\ UNCHANGED <<containerVars, nodeVars>>

(***************************************************************************)
(* Pack.Save                                                               *)
(***************************************************************************)
\* the check of the flags as it would be without the ViewOnly test
SaveAllowed_anyFlags(fl) == TRUE

\* Save goes on only if the tree is not view only
SaveAllowed(fl) == "ViewOnly" \notin fl

\* the objects the Update transaction of Save has written when its
\* function returns
SaveWritten(objs, u) == IF DOMAIN u = {} THEN objs ELSE SetMap(objs, u)

\* the loop as it would be if it only deleted from the write buffer
SaveCache_notFolded(c, u) == c

\* the cache after the loop that follows a transaction without error
SaveCache(c, u) ==
    [k \in DOMAIN c \cup DOMAIN u |-> IF k \in DOMAIN u THEN u[k] ELSE c[k]]

\* the loop as it would be if it did not look at err
SaveUnsaved_always(u, err) == EmptyMap

\* the write buffer after Save: emptied by the loop if err == nil
SaveUnsaved(u, err) == IF err = NilErr THEN EmptyMap ELSE u

\* the sequence number of the Root after Save: Save sets up the
\* timestamp only and never assigns the sequence number
SaveSeq(seq, err) == seq

Save ==
    /\ phase = "ready"
    /\ IF ~SaveAllowed(flags)
       THEN /\ ret' = Ret("Save", NilBytes, NilBytes, ErrViewOnlyTree, 0, 0)
            /\ UNCHANGED <<unsaved, cache, store, rTime, rSeq>>
       ELSE \E now \in Now, commits \in BOOLEAN :
              LET err == IF commits THEN NilErr ELSE ErrTx
              IN  /\ rTime' = now
                  /\ store' = Update(store, SaveWritten(store, unsaved), commits)
                  /\ cache' = IF err = NilErr THEN SaveCache(cache, unsaved) ELSE cache
                  /\ unsaved' = SaveUnsaved(unsaved, err)
                  /\ rSeq' = SaveSeq(rSeq, err)
                  /\ ret' = Ret("Save", NilBytes, NilBytes, err, 0, 1)
    /\ UNCHANGED <<flags, refs, phase>>
    /\ UNCHANGED <<containerVars, nodeVars>>

(***************************************************************************)
(* Unpacking of the top-level references: Dynamic.Value, Pack.Refs,        *)
(* Pack.init, Pack.RefByIndex                                              *)
(***************************************************************************)
\* (*Dynamic).Value() of a reference that is not unpacked: the object is
\* fetched with p.get and, if it is there, the reference becomes unpacked
ValueResult(dr, u, objs) ==
    LET r == getResult(u, objs, dr.hash)
    IN  [dr |-> IF r.err = NilErr
                THEN [dr EXCEPT !.wn = TRUE, !.value = TRUE]
                ELSE dr,
         err |-> r.err, views |-> r.views]

\* the loop of Refs from index i on (counted from 1): the references after
\* it, the error it returns and the View transactions it opened
RECURSIVE RefsLoop(_, _, _, _)
RefsLoop(rs, i, u, objs) ==
    IF i > Len(rs)
    THEN [refs |-> rs, err |-> NilErr, views |-> 0]
    ELSE IF rs[i].wn
         THEN RefsLoop(rs, i + 1, u, objs)
         ELSE LET v == ValueResult(rs[i], u, objs)
                  rest == RefsLoop([rs EXCEPT ![i] = v.dr], i + 1, u, objs)
              IN  IF v.err # NilErr
                  THEN [refs |-> [rs EXCEPT ![i] = v.dr], err |-> v.err,
                        views |-> v.views]
                  ELSE [rest EXCEPT !.views = @ + v.views]

\* Refs as it would be if it unpacked nothing
RefsResult_unpacksNone(rs, u, objs) == [refs |-> rs, err |-> NilErr, views |-> 0]

\* the result of p.Refs(): drs is never assigned, a nil slice is returned
RefsResult(rs, u, objs) == RefsLoop(rs, 1, u, objs)

Refs ==
    /\ phase = "ready"
    /\ LET r == RefsResult(refs, unsaved, store)
       IN  /\ refs' = r.refs
           /\ ret' = Ret("Refs", NilBytes, <<>>, r.err, r.views, 0)
    /\ UNCHANGED <<flags, unsaved, cache, store, rTime, rSeq, phase>>
    /\ UNCHANGED <<containerVars, nodeVars>>

\* init as it would be if it never unpacked
initResult_lazy(fl, rs, u, objs) == [refs |-> rs, err |-> NilErr, views |-> 0]

\* the result of p.init(): Refs is called if EntireTree is set
initResult(fl, rs, u, objs) ==
    IF "EntireTree" \in fl
    THEN RefsResult(rs, u, objs)
    ELSE [refs |-> rs, err |-> NilErr, views |-> 0]

init ==
    /\ phase = "new"
    /\ LET r == initResult(flags, refs, unsaved, store)
       IN  /\ refs' = r.refs
           /\ ret' = Ret("init", NilBytes, <<>>, r.err, r.views, 0)
           /\ phase' = IF r.err = NilErr THEN "ready" ELSE "failed"
    /\ UNCHANGED <<flags, unsaved, cache, store, rTime, rSeq>>
    /\ UNCHANGED <<containerVars, nodeVars>>

\* RefByIndex as it would be if it unpacked with Refs
RefByIndexResult_unpacksAll(rs, i, u, objs) ==
    IF i < 0 \/ i >= Len(rs)
    THEN [refs |-> rs, dr |-> BlankDynamic, err |-> ErrIndexOutOfRange, views |-> 0]
    ELSE LET r == RefsLoop(rs, 1, u, objs)
         IN  [refs |-> r.refs, dr |-> r.refs[i + 1], err |-> r.err, views |-> r.views]

\* RefByIndex as it would be with the upper limit of the range off by one
RefByIndexResult_offByOne(rs, i, u, objs) ==
    IF i < 0 \/ i >= Len(rs) - 1
    THEN [refs |-> rs, dr |-> BlankDynamic, err |-> ErrIndexOutOfRange, views |-> 0]
    ELSE IF rs[i + 1].wn
         THEN [refs |-> rs, dr |-> rs[i + 1], err |-> NilErr, views |-> 0]
         ELSE LET v == ValueResult(rs[i + 1], u, objs)
              IN  [refs |-> [rs EXCEPT ![i + 1] = v.dr], dr |-> v.dr,
                   err |-> v.err, views |-> v.views]

\* the result of p.RefByIndex(i), i counted from 0
RefByIndexResult(rs, i, u, objs) ==
    IF i < 0 \/ i >= Len(rs)
    THEN [refs |-> rs, dr |-> BlankDynamic, err |-> ErrIndexOutOfRange, views |-> 0]
    ELSE IF rs[i + 1].wn
         THEN [refs |-> rs, dr |-> rs[i + 1], err |-> NilErr, views |-> 0]
         ELSE LET v == ValueResult(rs[i + 1], u, objs)
              IN  [refs |-> [rs EXCEPT ![i + 1] = v.dr], dr |-> v.dr,
                   err |-> v.err, views |-> v.views]

RefByIndex(i) ==
    /\ phase = "ready"
    /\ LET r == RefByIndexResult(refs, i, unsaved, store)
       IN  /\ refs' = r.refs
           /\ ret' = Ret("RefByIndex", NilBytes, r.dr, r.err, r.views, 0)
    /\ UNCHANGED <<flags, unsaved, cache, store, rTime, rSeq, phase>>
    /\ UNCHANGED <<containerVars, nodeVars>>

(***************************************************************************)
(* Pack.Append, Pack.Pop                                                   *)
(***************************************************************************)
\* an object given to Append: of a registered type, with its encoding, or
\* of a type the registry does not know
Obj(registered, enc) == [registered |-> registered, enc |-> enc]
Objects == {Obj(TRUE, v) : v \in Payloads} \cup {Obj(FALSE, NilBytes)}

\* (*Dynamic).SetValue(obj) of a fresh Dynamic with a walkNode: the object
\* is encoded and staged in the write buffer, the reference points to it
SetValueResult(u, obj) ==
    IF obj.registered
    THEN [u |-> setResult(u, addKey(obj.enc), obj.enc),
          dr |-> Dynamic(addKey(obj.enc), TRUE, <<>>), err |-> NilErr]
    ELSE [u |-> u, dr |-> [Dynamic(ZeroHash, TRUE, <<>>) EXCEPT !.value = FALSE],
          err |-> ErrNotRegistered]

\* the first loop of Append from object k on: the write buffer, the new
\* references (drs) and the error of the first SetValue that fails
RECURSIVE AppendLoop(_, _, _, _)
AppendLoop(u, drs, objs, k) ==
    IF k > Len(objs)
    THEN [u |-> u, drs |-> drs, err |-> NilErr]
    ELSE LET s == SetValueResult(u, objs[k])
         IN  IF s.err # NilErr
             THEN [u |-> s.u, drs |-> drs, err |-> s.err]
             ELSE AppendLoop(s.u, Append(drs, s.dr), objs, k + 1)

\* the reattach loop of Append: every unpacked reference of the new slice
\* records its index (counted from 0)
Reattach(rs) ==
    [i \in 1..Len(rs) |-> IF rs[i].wn THEN Attach(rs[i], i - 1) ELSE rs[i]]

\* Append as it would be if only the new references were attached, at
\* their indices among the new ones
AppendRefs_newOnly(rs, drs) == rs \o Reattach(drs)

\* Append as it would be if it put the new references in front
AppendRefs_inFront(rs, drs) == Reattach(drs \o rs)

\* Root.Refs after p.Append(objs...), given the new references
AppendRefs(rs, drs) == Reattach(rs \o drs)

AppendObjs(objs) ==
    /\ phase = "ready"
    /\ Len(refs) + Len(objs) <= MaxRefs
    /\ IF Len(objs) = 0
       THEN /\ ret' = Ret("Append", NilBytes, <<>>, NilErr, 0, 0)
            /\ UNCHANGED <<unsaved, refs>>
       ELSE LET a == AppendLoop(unsaved, <<>>, objs, 1)
            IN  /\ unsaved' = a.u
                /\ refs' = IF a.err = NilErr THEN AppendRefs(refs, a.drs) ELSE refs
                /\ ret' = Ret("Append", NilBytes, <<>>, a.err, 0, 0)
    /\ UNCHANGED <<flags, cache, store, rTime, rSeq, phase>>
    /\ UNCHANGED <<containerVars, nodeVars>>

\* Pop as it would be if it reported an empty Root with an error
PopResult_emptyFails(rs, u, objs) ==
    IF Len(rs) = 0
    THEN [refs |-> rs, dr |-> BlankDynamic, err |-> ErrIndexOutOfRange, views |-> 0]
    ELSE LET last == rs[Len(rs)]
             front == SubSeq(rs, 1, Len(rs) - 1)
         IN  IF ~last.wn
             THEN LET v == ValueResult(last, u, objs)
                  IN  [refs |-> front,
                       dr |-> [last EXCEPT !.wn = TRUE, !.value = v.dr.value],
                       err |-> v.err, views |-> v.views]
             ELSE [refs |-> front, dr |-> Detach(last), err |-> NilErr,
                   views |-> 0]

\* Pop as it would be if it did not detach the reference it returns
PopResult_attached(rs, u, objs) ==
    IF Len(rs) = 0
    THEN [refs |-> rs, dr |-> BlankDynamic, err |-> NilErr, views |-> 0]
    ELSE LET last == rs[Len(rs)]
             front == SubSeq(rs, 1, Len(rs) - 1)
         IN  IF ~last.wn
             THEN LET v == ValueResult(last, u, objs)
                  IN  [refs |-> front,
                       dr |-> [last EXCEPT !.wn = TRUE, !.value = v.dr.value],
                       err |-> v.err, views |-> v.views]
             ELSE [refs |-> front, dr |-> last, err |-> NilErr, views |-> 0]

\* Pop as it would be if it kept a reference it could not unpack
PopResult_keepsOnError(rs, u, objs) ==
    IF Len(rs) = 0
    THEN [refs |-> rs, dr |-> BlankDynamic, err |-> NilErr, views |-> 0]
    ELSE LET last == rs[Len(rs)]
             front == SubSeq(rs, 1, Len(rs) - 1)
         IN  IF ~last.wn
             THEN LET v == ValueResult(last, u, objs)
                  IN  [refs |-> IF v.err = NilErr THEN front ELSE rs,
                       dr |-> [last EXCEPT !.wn = TRUE, !.value = v.dr.value],
                       err |-> v.err, views |-> v.views]
             ELSE [refs |-> front, dr |-> Detach(last), err |-> NilErr,
                   views |-> 0]

\* the result of p.Pop()
PopResult(rs, u, objs) ==
    IF Len(rs) = 0
    THEN [refs |-> rs, dr |-> BlankDynamic, err |-> NilErr, views |-> 0]
    ELSE LET last == rs[Len(rs)]
             front == SubSeq(rs, 1, Len(rs) - 1)
         IN  IF ~last.wn
             THEN LET v == ValueResult(last, u, objs)
                  IN  [refs |-> front,
                       dr |-> [last EXCEPT !.wn = TRUE, !.value = v.dr.value],
                       err |-> v.err, views |-> v.views]
             ELSE [refs |-> front, dr |-> Detach(last), err |-> NilErr,
                   views |-> 0]

Pop ==
    /\ phase = "ready"
    /\ LET r == PopResult(refs, unsaved, store)
       IN  /\ refs' = r.refs
           /\ ret' = Ret("Pop", NilBytes, r.dr, r.err, r.views, 0)
    /\ UNCHANGED <<flags, unsaved, cache, store, rTime, rSeq, phase>>
    /\ UNCHANGED <<containerVars, nodeVars>>

(***************************************************************************)
(* The Container of package skyobjects: Save, SaveSchema, Get,             *)
(* GetAllOfSchema.  Its database keeps byte strings under the hash of      *)
(* their content (AddAutoKey).  In a serialized record a hash takes one    *)
(* cell, which stands for its 32 bytes; every other cell is a byte or a    *)
(* length.                                                                 *)
(***************************************************************************)
\* the data of the objects that are saved
ContainerData == {NilBytes, <<1>>}

\* the types given to SaveSchema, each known by the bytes of its name
SchemaObjects == {<<3>>, <<4>>}

\* href{SchemaKey, Data}
href(schemaKey, data) == [SchemaKey |-> schemaKey, Data |-> data]

\* encoder.Serialize(h) of an href: the 32 bytes of the schema key, the
\* length of the data, the data
Serialize(h) == <<h.SchemaKey, Len(h.Data)>> \o h.Data

\* encoder.DeserializeRaw(hrefData, &h)
DeserializeRaw(hrefData) ==
    href(hrefData[1], SubSeq(hrefData, 3, 2 + hrefData[2]))

\* ReadSchema(object): the schema of the type of the object
ReadSchema(object) == [Name |-> object]

\* encoder.Serialize(schema): the length of the name and the name
SerializeSchema(schema) == <<Len(schema.Name)>> \o schema.Name

\* _schemaType: the reserved schema key of the records that hold schemas
schemaType == SumSHA256(<<0>>)

\* (*data.DB).AddAutoKey(value): the value is stored under the hash of its
\* content, which is returned
AddAutoKey(d, value) ==
    [key |-> SumSHA256(value),
     ds |-> SetMap(d, [k \in {SumSHA256(value)} |-> value])]

\* (*data.DB).Get(key)
DBGet(d, key) ==
    [val |-> ObjectsGet(d, key), ok |-> key \in DOMAIN d]

\* Container.Save as it would be if it stored the href without the data
ContainerSaveResult_noData(d, schemaKey, data) ==
    AddAutoKey(d, Serialize(href(schemaKey, NilBytes)))

\* the result of c.Save(schemaKey, data): the key and the database
ContainerSaveResult(d, schemaKey, data) ==
    AddAutoKey(d, Serialize(href(schemaKey, data)))

\* what a call on the Container returns
CRet(op, arg, val, err) == [op |-> op, arg |-> arg, val |-> val, err |-> err]

ContainerSave(schemaKey, data) ==
    /\ LET r == ContainerSaveResult(ds, schemaKey, data)
       IN  /\ ds' = r.ds
           /\ cret' = CRet("Save", href(schemaKey, data), r.key, NilErr)
    /\ UNCHANGED schemas
    /\ UNCHANGED <<packVars, nodeVars>>

\* the result of c.SaveSchema(object): the key, the database, the schemas
SaveSchemaResult(d, sch, object) ==
    LET schema == ReadSchema(object)
        r == AddAutoKey(d, Serialize(href(schemaType, SerializeSchema(schema))))
    IN  [key |-> r.key, ds |-> r.ds,
         schemas |-> [k \in DOMAIN sch \cup {r.key} |->
                         IF k = r.key THEN schema.Name ELSE sch[k]]]

SaveSchema(object) ==
    /\ LET r == SaveSchemaResult(ds, schemas, object)
       IN  /\ ds' = r.ds
           /\ schemas' = r.schemas
           /\ cret' = CRet("SaveSchema", object, r.key, NilErr)
    /\ UNCHANGED <<packVars, nodeVars>>

\* fmt.Errorf("no object found with key '%s'", key.Hex())
ErrNoObject(key) == Err("no object found with key", key)

\* the result of c.Get(key)
ContainerGetResult(d, key) ==
    LET g == DBGet(d, key)
    IN  IF ~g.ok
        THEN [h |-> href(ZeroHash, NilBytes), err |-> ErrNoObject(key)]
        ELSE [h |-> DeserializeRaw(g.val), err |-> NilErr]

ContainerGet(key) ==
    /\ LET r == ContainerGetResult(ds, key)
       IN  cret' = CRet("Get", key, r.h, r.err)
    /\ UNCHANGED <<ds, schemas>>
    /\ UNCHANGED <<packVars, nodeVars>>

\* the query of GetAllOfSchema as it would be if it took every record
query_anyRecord(schemaKey, key, data) == TRUE

\* the query of GetAllOfSchema:
\* bytes.Compare(schemaKey[:32], data[:32]) == 0
query(schemaKey, key, data) == SubSeq(data, 1, 1) = <<schemaKey>>

\* (*data.DB).Where(query) with the query of GetAllOfSchema: the keys of
\* the records the query holds for (in no order that is promised)
GetAllOfSchemaResult(d, schemaKey) ==
    {k \in DOMAIN d : query(schemaKey, k, d[k])}

GetAllOfSchema(schemaKey) ==
    /\ cret' = CRet("GetAllOfSchema", schemaKey,
                    GetAllOfSchemaResult(ds, schemaKey), NilErr)
    /\ UNCHANGED <<ds, schemas>>
    /\ UNCHANGED <<packVars, nodeVars>>

(***************************************************************************)
(* The Node of package node: Start, the connect callback with              *)
(* sendEverythingWeHave, the handle goroutine, Close.  The connection pool *)
(* (gnet), the RPC server and the database are known at the interface the  *)
(* Node uses: events arrive on the channels of the pool and of the RPC     *)
(* server, connections are reported to the connect callback, and keys are  *)
(* added to the database by its other users.                               *)
(***************************************************************************)
\* the keys of the objects of the node's database
NodeKeys == Hashes

\* the events the handle loop takes: the channels of its select
\* (pool.SendResults, pool.DisconnectQueue, the ping ticker, n.rpce) and
\* the messages HandleMessages works off
Channels == {"sendResult", "disconnect", "ping", "rpce"}
EventKinds == Channels \cup {"message"}

\* the node runs: Start has started its goroutines
Running == started \in {"ok", "rpcErr"}

\* n.Start(): StartListen fails and Start returns its error, or the pool
\* listens, the RPC server is started if it is enabled (its failure is
\* returned but the node runs, n.rpce stays nil) and the goroutines run
Start ==
    /\ started = "new"
    /\ \E listens \in BOOLEAN, rpcStarts \in BOOLEAN :
          IF ~listens
          THEN /\ started' = "listenErr"
               /\ UNCHANGED <<rpc, listening, hpc>>
          ELSE /\ listening' = TRUE
               /\ rpc' = IF rpc = "conf"
                         THEN (IF rpcStarts THEN "on" ELSE "failed")
                         ELSE rpc
               /\ started' = IF rpc' = "failed" THEN "rpcErr" ELSE "ok"
               /\ hpc' = "loop"
    /\ UNCHANGED <<quit, done, cpc, pending, db, conn, sent>>
    /\ UNCHANGED <<packVars, containerVars>>

\* another user of the database stores an object under key k
dbAdd(k) ==
    /\ k \notin db
    /\ db' = db \cup {k}
    /\ UNCHANGED <<started, rpc, quit, done, listening, hpc, cpc, pending, conn, sent>>
    /\ UNCHANGED <<packVars, containerVars>>

\* the orders in which db.Range can visit the keys: each key once
RangeOrders(keys) ==
    {f \in [1..Cardinality(keys) -> keys] :
        \A i, j \in 1..Cardinality(keys) : f[i] = f[j] => i = j}

\* the connect callback as it would be if it announced on every connection
announces_anyConnection(outgoing, keys) == RangeOrders(keys)

\* the Announce messages the connect callback can send for a connection:
\* sendEverythingWeHave sends one for every key db.Range visits, and it is
\* called if the connection is not outgoing
announces(outgoing, keys) ==
    IF ~outgoing THEN RangeOrders(keys) ELSE {<<>>}

\* n.conf.ConnectCallback(gc, outgoing), called by the pool for an
\* accepted connection while it listens and for the connections to the
\* known hosts
ConnectCallback(outgoing) ==
    /\ Running
    /\ ~outgoing => listening
    /\ conn' = IF outgoing THEN "outgoing" ELSE "incoming"
    /\ sent' \in announces(outgoing, db)
    /\ UNCHANGED <<started, rpc, quit, done, listening, hpc, cpc, pending, db>>
    /\ UNCHANGED <<packVars, containerVars>>

\* an event of kind k arrives: a send result, a disconnect, a tick of the
\* ping ticker, an RPC event (while the RPC server runs), a message
arrive(k) ==
    /\ Running
    /\ pending[k] < MaxPending
    /\ k = "rpce" => rpc = "on"
    /\ pending' = [pending EXCEPT ![k] = @ + 1]
    /\ UNCHANGED <<started, rpc, quit, done, listening, hpc, cpc, db, conn, sent>>
    /\ UNCHANGED <<packVars, containerVars>>

\* the select of handle as it would be if quit were looked at only when no
\* event waits
ready_quitLast(p, q) ==
    LET evs == {k \in Channels : p[k] > 0}
    IN  IF evs # {} THEN evs
        ELSE IF q THEN {"quit"} ELSE {"default"}

\* the cases the select of handle can take: every channel that has an
\* event, quit if it is closed, and default if there is no other
ready(p, q) ==
    LET cases == {k \in Channels : p[k] > 0} \cup (IF q THEN {"quit"} ELSE {})
    IN  IF cases = {} THEN {"default"} ELSE cases

\* one turn of the loop of handle that takes an event from channel k:
\* sr := <-n.pool.SendResults, de := <-n.pool.DisconnectQueue, <-ping,
\* rpce := <-n.rpce
handleEvent(k) ==
    /\ hpc = "loop"
    /\ k \in ready(pending, quit)
    /\ pending' = [pending EXCEPT ![k] = @ - 1]
    /\ UNCHANGED <<started, rpc, quit, done, listening, hpc, cpc, db, conn, sent>>
    /\ UNCHANGED <<packVars, containerVars>>

\* default: n.pool.HandleMessages()
handleDefault ==
    /\ hpc = "loop"
    /\ "default" \in ready(pending, quit)
    /\ pending' = [pending EXCEPT !["message"] = 0]
    /\ UNCHANGED <<started, rpc, quit, done, listening, hpc, cpc, db, conn, sent>>
    /\ UNCHANGED <<packVars, containerVars>>

\* case <-quit: return
handleQuit ==
    /\ hpc = "loop"
    /\ "quit" \in ready(pending, quit)
    /\ hpc' = "stopListen"
    /\ UNCHANGED <<started, rpc, quit, done, listening, cpc, pending, db, conn, sent>>
    /\ UNCHANGED <<packVars, containerVars>>

\* defer n.pool.StopListen(), the first of the deferred calls to run
handleStopListen ==
    /\ hpc = "stopListen"
    /\ listening' = FALSE
    /\ hpc' = "closeDone"
    /\ UNCHANGED <<started, rpc, quit, done, cpc, pending, db, conn, sent>>
    /\ UNCHANGED <<packVars, containerVars>>

\* defer close(done)
handleCloseDone ==
    /\ hpc = "closeDone"
    /\ done' = done + 1
    /\ hpc' = "returned"
    /\ UNCHANGED <<started, rpc, quit, listening, cpc, pending, db, conn, sent>>
    /\ UNCHANGED <<packVars, containerVars>>

\* n.Close() is called: close(n.quit)
Close ==
    /\ Running
    /\ cpc = "none"
    /\ quit' = TRUE
    /\ cpc' = "rpcClose"
    /\ UNCHANGED <<started, rpc, done, listening, hpc, pending, db, conn, sent>>
    /\ UNCHANGED <<packVars, containerVars>>

\* if n.conf.RPC { n.rpc.close() }
CloseRPC ==
    /\ cpc = "rpcClose"
    /\ rpc' = IF rpc = "off" THEN rpc ELSE "closed"
    /\ cpc' = "wait"
    /\ UNCHANGED <<started, quit, done, listening, hpc, pending, db, conn, sent>>
    /\ UNCHANGED <<packVars, containerVars>>

\* <-n.done, after which Close returns
CloseDone ==
    /\ cpc = "wait"
    /\ done > 0
    /\ cpc' = "returned"
    /\ UNCHANGED <<started, rpc, quit, done, listening, hpc, pending, db, conn, sent>>
    /\ UNCHANGED <<packVars, containerVars>>

(***************************************************************************)
(* The specification.                                                      *)
(***************************************************************************)
\* sequences over S of length at most n
RECURSIVE SeqsUpTo(_, _)
SeqsUpTo(S, n) ==
    IF n = 0 THEN {<<>>}
    ELSE LET shorter == SeqsUpTo(S, n - 1)
         IN  shorter \cup {Append(s, x) : s \in {t \in shorter : Len(t) = n - 1}, x \in S}

\* the objects a database holds before the Pack is created: each stored
\* under the hash of its bytes.  None, one or all of the objects are there
\* (which one, if one, makes no difference: the objects are alike)
ContentStore(S) == [k \in {SumSHA256(v) : v \in S} |-> CHOOSE v \in S : SumSHA256(v) = k]

\* a Root as it is decoded: no reference is unpacked
PackedRefs == SeqsUpTo({Dynamic(h, FALSE, <<>>) : h \in Hashes}, MaxRefs)

\* NewContainer(ds) on a database without records
NewContainer ==
    /\ ds = EmptyMap
    /\ schemas = EmptyMap
    /\ cret = CRet("new", NilBytes, NilBytes, NilErr)

\* NewNode(conf, db), with the RPC server enabled in conf or not, on a
\* database without objects
NewNode ==
    /\ started = "new"
    /\ rpc \in {"off", "conf"}
    /\ quit = FALSE
    /\ done = 0
    /\ listening = FALSE
    /\ hpc = "none"
    /\ cpc = "none"
    /\ pending = [k \in EventKinds |-> 0]
    /\ db = {}
    /\ conn = "none"
    /\ sent = <<>>

Init ==
    /\ flags \in SUBSET Flags
    /\ unsaved = EmptyMap
    /\ cache = EmptyMap
    /\ store \in {ContentStore(S) : S \in {{}, {<<1>>}, Payloads}}
    /\ refs \in PackedRefs
    /\ rTime = 0
    /\ rSeq = 0
    /\ phase = "new"
    /\ ret = Ret("new", NilBytes, NilBytes, NilErr, 0, 0)
    /\ NewContainer
    /\ NewNode /\ rpc = "conf"

Next ==
    \/ init
    \/ \E key \in Hashes : get(key)
    \/ \E val \in Payloads : add(val)
    \/ \E key \in Hashes, val \in Payloads : set(key, val)
    \/ Save
    \/ Refs
    \/ \E i \in -1..MaxRefs : RefByIndex(i)
    \/ \E objs \in SeqsUpTo(Objects, MaxObjs) : AppendObjs(objs)
    \/ Pop

Spec == Init /\ [][Next]_vars

\* a Pack that is opened without EntireTree and on which only Append and
\* Pop are called
InitLazy == Init /\ "EntireTree" \notin flags

NextAppendPop ==
    \/ init
    \/ \E objs \in SeqsUpTo(Objects, MaxObjs) : AppendObjs(objs)
    \/ Pop

SpecAppendPop == InitLazy /\ [][NextAppendPop]_vars

\* a Pack that is opened on a Root without references, on which values
\* are appended and saved and the references are asked for with Refs
InitEmptyRoot == Init /\ refs = <<>>

NextEmptyRoot ==
    \/ init
    \/ \E objs \in SeqsUpTo(Objects, MaxObjs) : AppendObjs(objs)
    \/ Save
    \/ Refs

SpecEmptyRoot == InitEmptyRoot /\ [][NextEmptyRoot]_vars

\* the schema keys SaveSchema returns and the reserved one
SchemaKeys ==
    {schemaType} \cup
    {SaveSchemaResult(EmptyMap, EmptyMap, o).key : o \in SchemaObjects}

\* the keys the Container is asked for: those of the objects and schemas
\* that can be saved and one that is never stored
ContainerKeys ==
    {ContainerSaveResult(EmptyMap, s, d).key : s \in SchemaKeys, d \in ContainerData}
    \cup SchemaKeys \cup {ZeroHash}

\* a Container next to a Pack that nobody calls
InitContainer ==
    /\ Init
    /\ flags = {} /\ store = EmptyMap /\ refs = <<>>

NextContainer ==
    \/ \E s \in SchemaKeys, d \in ContainerData : ContainerSave(s, d)
    \/ \E o \in SchemaObjects : SaveSchema(o)
    \/ \E k \in ContainerKeys : ContainerGet(k)
    \/ \E s \in SchemaKeys \cup {ZeroHash} : GetAllOfSchema(s)

SpecContainer == InitContainer /\ [][NextContainer]_vars

\* a Node next to a Pack and a Container that nobody calls
InitNode ==
    /\ flags = {} /\ unsaved = EmptyMap /\ cache = EmptyMap
    /\ store = EmptyMap /\ refs = <<>>
    /\ rTime = 0 /\ rSeq = 0 /\ phase = "new"
    /\ ret = Ret("new", NilBytes, NilBytes, NilErr, 0, 0)
    /\ NewContainer
    /\ NewNode

handle ==
    \/ \E k \in Channels : handleEvent(k)
    \/ handleDefault
    \/ handleQuit
    \/ handleStopListen
    \/ handleCloseDone

NextNode ==
    \/ Start
    \/ \E k \in NodeKeys : dbAdd(k)
    \/ \E outgoing \in BOOLEAN : ConnectCallback(outgoing)
    \/ \E k \in EventKinds : arrive(k)
    \/ handle
    \/ Close
    \/ CloseRPC
    \/ CloseDone

\* The scheduling: a goroutine that can run does run, so the deferred
\* calls of handle and the steps of Close are taken when they can be; the
\* select of Go chooses among its ready cases at random, so a case that
\* stays ready (quit, once it is closed) is taken at some turn.
FairNode ==
    /\ WF_vars(handleQuit)
    /\ WF_vars(handleStopListen)
    /\ WF_vars(handleCloseDone)
    /\ WF_vars(CloseRPC)
    /\ WF_vars(CloseDone)

SpecNode == InitNode /\ [][NextNode]_vars /\ FairNode

(***************************************************************************)
(* Properties.                                                             *)
(***************************************************************************)
\* the step is a call of Save that opened the Update transaction, which
\* failed / which committed
SaveFailed == ret'.op = "Save" /\ ret'.updates = 1 /\ ret'.err # NilErr
SaveCommitted == ret'.op = "Save" /\ ret'.err = NilErr

\* every entry of the write buffer u is in the map m with the same bytes
AllIn(u, m) == \A k \in DOMAIN u : k \in DOMAIN m /\ m[k] = u[k]

\* C1 as stated: if the transaction of Save fails, Save returns that error,
\* the write buffer is what it was before the call and none of the staged
\* entries is visible in the store; a Save that succeeds commits every
\* entry of the buffer.
C1_SaveAtomicity_AsStated ==
    [][/\ SaveFailed =>
            /\ ret'.err = ErrTx
            /\ unsaved' = unsaved
            /\ \A k \in DOMAIN unsaved : k \notin DOMAIN store'
       /\ SaveCommitted => AllIn(unsaved, store')]_vars

\* C1 as amended: if the transaction of Save fails, Save returns that
\* error, the write buffer and the store are what they were before the call
\* (a staged entry is visible in the store only if it was stored before the
\* call already); a Save that succeeds commits every entry of the buffer.
C1_SaveAtomicity ==
    [][/\ SaveFailed =>
            /\ ret'.err = ErrTx
            /\ unsaved' = unsaved
            /\ store' = store
            /\ cache' = cache
       /\ SaveCommitted => AllIn(unsaved, store')]_vars

\* a Save has failed with entries staged of which one is not in the store
C1_Witness ==
    /\ ret.op = "Save" /\ ret.err = ErrTx
    /\ \E k \in DOMAIN unsaved : k \notin DOMAIN store

\* C2: on a Pack with the ViewOnly flag every call of Save returns
\* ErrViewOnlyTree, opens no transaction on the store and leaves the store
\* (and the write buffer) as it is; no other operation of such a Pack
\* changes the store either.
C2_ViewOnly ==
    [][("ViewOnly" \in flags) =>
            /\ store' = store
            /\ ret'.op = "Save" =>
                    /\ ret'.err = ErrViewOnlyTree
                    /\ ret'.updates = 0 /\ ret'.views = 0
                    /\ unsaved' = unsaved]_vars

\* Save was refused on a view only Pack with entries staged
C2_Witness ==
    /\ "ViewOnly" \in flags
    /\ ret.op = "Save" /\ ret.err = ErrViewOnlyTree
    /\ unsaved # EmptyMap

\* C3: the sequence number of the Root goes up by exactly 1 on every Save
\* that succeeds and stays on every Save that fails.
C3_SequenceMonotonic ==
    [][ret'.op = "Save" =>
            rSeq' = rSeq + (IF ret'.err = NilErr THEN 1 ELSE 0)]_vars

\* C4: after a Save that succeeds the write buffer is empty and every entry
\* staged before the call is in the store and in the cache with the same
\* bytes; no step other than a Save that succeeds takes an entry out of the
\* write buffer.
C4_CommitFolds ==
    [][/\ SaveCommitted =>
            /\ unsaved' = EmptyMap
            /\ AllIn(unsaved, store')
            /\ AllIn(unsaved, cache')
       /\ (\E k \in DOMAIN unsaved : k \notin DOMAIN unsaved') => SaveCommitted]_vars

\* a Save has committed staged entries, one of them under a key that is
\* not the hash of its bytes
C4_Witness ==
    /\ ret.op = "Save" /\ ret.err = NilErr
    /\ unsaved = EmptyMap
    /\ \E k \in DOMAIN cache : k \in DOMAIN store /\ k # SumSHA256(cache[k])

\* C5: get(key) returns the staged bytes, without a transaction on the
\* store, if the key is staged; otherwise the bytes the store holds; the
\* not-found error exactly if the key is in neither; and get changes
\* neither the write buffer nor the store.
C5_ReadThrough ==
    [][ret'.op = "get" =>
        LET key == ret'.arg
        IN  /\ unsaved' = unsaved /\ store' = store
            /\ key \in DOMAIN unsaved =>
                    /\ ret'.val = unsaved[key]
                    /\ ret'.err = NilErr
                    /\ ret'.views = 0
            /\ (key \notin DOMAIN unsaved /\ key \in DOMAIN store) =>
                    /\ ret'.val = store[key]
                    /\ ret'.err = NilErr
            /\ ret'.err = ErrNotFound(key) <=>
                    (key \notin DOMAIN unsaved /\ key \notin DOMAIN store)
            /\ ret'.err \in {NilErr, ErrNotFound(key)}]_vars

\* get has returned staged bytes for a key under which the store holds
\* other bytes
C5_Witness ==
    /\ ret.op = "get" /\ ret.err = NilErr
    /\ ret.arg \in DOMAIN unsaved /\ ret.arg \in DOMAIN store
    /\ store[ret.arg] # unsaved[ret.arg]
    /\ ret.val = unsaved[ret.arg]

\* C6: add(b) stages b under the hash of b and writes nothing to the store,
\* so that get of the returned key yields b; the other entries of the write
\* buffer stay, and adding b when it is staged already leaves the buffer
\* as it is, with one entry for the key.
C6_ContentAddressed ==
    [][ret'.op = "add" =>
        LET b == ret'.arg
            key == ret'.val
        IN  /\ key = SumSHA256(b)
            /\ store' = store /\ ret'.updates = 0 /\ ret'.views = 0
            /\ DOMAIN unsaved' = DOMAIN unsaved \cup {key}
            /\ unsaved'[key] = b
            /\ \A k \in DOMAIN unsaved : k # key => unsaved'[k] = unsaved[k]
            /\ getResult(unsaved', store', key).val = b
            /\ getResult(unsaved', store', key).err = NilErr
            /\ (key \in DOMAIN unsaved /\ unsaved[key] = b) => unsaved' = unsaved
            /\ Cardinality(DOMAIN unsaved') =
                  Cardinality(DOMAIN unsaved) + (IF key \in DOMAIN unsaved THEN 0 ELSE 1)]_vars

\* add has staged bytes the store does not hold, next to another entry
C6_Witness ==
    /\ ret.op = "add"
    /\ ret.val \in DOMAIN unsaved /\ unsaved[ret.val] = ret.arg
    /\ ret.val \notin DOMAIN store
    /\ Cardinality(DOMAIN unsaved) > 1

C8_LazyPartial ==
    [][\A i \in 0..(Len(refs) - 1) :
        (ret'.op = "RefByIndex" /\ "EntireTree" \notin flags /\ RefByIndex(i)) =>
            /\ Len(refs') = Len(refs)
            /\ \A j \in 1..Len(refs) :
                    /\ refs'[j].hash = refs[j].hash
                    /\ j # i + 1 => refs'[j] = refs[j]]_vars

\* RefByIndex(0) has unpacked the first reference and the second one is
\* not unpacked
C8_Witness ==
    /\ "EntireTree" \notin flags
    /\ ret.op = "RefByIndex" /\ ret.err = NilErr
    /\ Len(refs) >= 2
    /\ refs[1].wn /\ ret.val = refs[1]
    /\ ~refs[2].wn

\* C9: with EntireTree, when init (and Refs) returns no error every
\* top-level reference is unpacked; when unpacking one fails, init (and
\* Refs) returns the error of the first reference that could not be
\* unpacked, and the references before it are unpacked.
C9_Eager ==
    (ret.op \in {"init", "Refs"} /\ "EntireTree" \in flags) =>
        /\ ret.err = NilErr => \A i \in 1..Len(refs) : refs[i].wn
        /\ ret.err # NilErr =>
              \E i \in 1..Len(refs) :
                  /\ \A j \in 1..(i - 1) : refs[j].wn
                  /\ ~refs[i].wn
                  /\ refs[i].hash \notin DOMAIN unsaved \cup DOMAIN store
                  /\ ret.err = ErrNotFound(refs[i].hash)
        /\ (ret.op = "init" /\ ret.err # NilErr) => phase = "failed"

\* init with EntireTree has unpacked a Root of several references
C9_Witness ==
    /\ "EntireTree" \in flags
    /\ ret.op = "init" /\ ret.err = NilErr
    /\ Len(refs) >= 2
    /\ \A i \in 1..Len(refs) : refs[i].wn

\* C10: RefByIndex(i) returns ErrIndexOutOfRange exactly if i < 0 or
\* i >= len(Root.Refs); with the error it reads nothing from the store and
\* leaves the references as they are.
C10_IndexOutOfRange ==
    [][\A i \in -1..MaxRefs :
        (ret'.op = "RefByIndex" /\ RefByIndex(i)) =>
            /\ ret'.err = ErrIndexOutOfRange <=> (i < 0 \/ i >= Len(refs))
            /\ ret'.err = ErrIndexOutOfRange =>
                    /\ ret'.views = 0
                    /\ refs' = refs
                    /\ ret'.val = BlankDynamic]_vars

\* RefByIndex has returned ErrIndexOutOfRange on a Root with a reference
\* that is not unpacked
C10_Witness ==
    /\ ret.op = "RefByIndex" /\ ret.err = ErrIndexOutOfRange
    /\ Len(refs) >= 1
    /\ \E i \in 1..Len(refs) : ~refs[i].wn

\* C11: Pop on a Root without references returns a blank Dynamic and no
\* error; it reads nothing, and Root.Refs, the write buffer, the cache and
\* the store are as they were.
C11_PopEmpty ==
    [][(ret'.op = "Pop" /\ Len(refs) = 0 /\ Pop) =>
            /\ ret'.val = BlankDynamic
            /\ ret'.err = NilErr
            /\ ret'.views = 0
            /\ refs' = refs
            /\ unsaved' = unsaved
            /\ cache' = cache
            /\ store' = store]_vars

\* Pop has returned a blank Dynamic on an empty Root while the write buffer
\* and the store hold objects
C11_Witness ==
    /\ ret.op = "Pop" /\ ret.val = BlankDynamic /\ ret.err = NilErr
    /\ Len(refs) = 0
    /\ DOMAIN unsaved # {}
    /\ DOMAIN store # {}

\* the hashes of a list of references, in order
HashesOf(rs) == [i \in 1..Len(rs) |-> rs[i].hash]

\* C12: on a Root that was empty and to which values were appended, Refs
\* called after a Save that succeeded returns no error and the references
\* of the Root in their order, and the object of every reference is read
\* from the store by get.
C12_SavedRootClosed ==
    [][(ret.op = "Save" /\ ret.err = NilErr /\ ret'.op = "Refs" /\ Refs) =>
            /\ ret'.err = NilErr
            /\ HashesOf(ret'.val) = HashesOf(refs)
            /\ \A i \in 1..Len(refs) :
                    LET g == getResult(unsaved', store', refs[i].hash)
                    IN  g.err = NilErr /\ g.views = 1]_vars

\* C13: the key Save(s, d) returns is one under which Get returns (s, d)
\* and no error; what Get returns for a key without error it returns after
\* every further call; for a key under which nothing is stored Get returns
\* an error, the zero schema key and nil data.
C13_RoundTrip ==
    [][/\ \A s \in SchemaKeys, d \in ContainerData :
            (cret'.op = "Save" /\ ContainerSave(s, d)) =>
                ContainerGetResult(ds', cret'.val) =
                    [h |-> href(s, d), err |-> NilErr]
       /\ \A k \in ContainerKeys :
            /\ ContainerGetResult(ds, k).err = NilErr =>
                    ContainerGetResult(ds', k) = ContainerGetResult(ds, k)
            /\ (cret'.op = "Get" /\ ContainerGet(k)) =>
                    /\ cret'.err = NilErr <=> k \in DOMAIN ds
                    /\ cret'.err # NilErr =>
                            cret'.val = href(ZeroHash, NilBytes)]_vars

\* Get has returned the schema key and the data of an object that was
\* saved before other objects and a schema were
C13_Witness ==
    /\ cret.op = "Get" /\ cret.err = NilErr
    /\ cret.val.Data # NilBytes /\ cret.val.SchemaKey # schemaType
    /\ Cardinality(DOMAIN ds) >= 3
    /\ DOMAIN schemas # {}

\* C14: the connect callback sends, for a connection that is not outgoing,
\* Announce messages whose hashes are keys of the node's database at that
\* time, one message for every key; for an outgoing connection it sends
\* none.
C14_Announced ==
    [][\A outgoing \in BOOLEAN :
        ((conn' = IF outgoing THEN "outgoing" ELSE "incoming")
            /\ ConnectCallback(outgoing)) =>
            /\ outgoing => sent' = <<>>
            /\ ~outgoing =>
                /\ \A i \in 1..Len(sent') : sent'[i] \in db
                /\ \A k \in db :
                        Cardinality({i \in 1..Len(sent') : sent'[i] = k}) = 1]_vars

\* every key of a database of several objects was announced for an
\* incoming connection
C14_Witness ==
    /\ conn = "incoming"
    /\ Cardinality(db) >= 2
    /\ Len(sent) = Cardinality(db)

\* C15 as it is stated: Refs on a Pack without EntireTree leaves every
\* reference that is not unpacked as it is; with EntireTree it unpacks
\* every reference before it returns without error.
C15_RefsHonoursEntireTree_AsStated ==
    [][(ret'.op = "Refs" /\ Refs) =>
            /\ "EntireTree" \notin flags =>
                    \A i \in 1..Len(refs) : ~refs[i].wn => refs'[i] = refs[i]
            /\ ("EntireTree" \in flags /\ ret'.err = NilErr) =>
                    \A i \in 1..Len(refs') : refs'[i].wn]_vars

\* C15: Refs does not look at the flags.  On every Pack it unpacks the
\* references in order: without error all of them are unpacked afterwards;
\* with an error the references before the first that cannot be unpacked
\* are unpacked and that one and those after it are as they were.  The
\* list keeps its length and its hashes.
C15_RefsUnpacksAlways ==
    [][(ret'.op = "Refs" /\ Refs) =>
            /\ HashesOf(refs') = HashesOf(refs)
            /\ ret'.err = NilErr => \A i \in 1..Len(refs') : refs'[i].wn
            /\ ret'.err # NilErr =>
                  \E i \in 1..Len(refs) :
                      /\ \A j \in 1..(i - 1) : refs'[j].wn
                      /\ ~refs[i].wn
                      /\ ret'.err = ErrNotFound(refs[i].hash)
                      /\ \A j \in i..Len(refs) : refs'[j] = refs[j]]_vars

\* Refs on a Pack without EntireTree has unpacked several references that
\* init had left as they were
C15_Witness ==
    /\ "EntireTree" \notin flags
    /\ ret.op = "Refs" /\ ret.err = NilErr /\ ret.views >= 2
    /\ Len(refs) >= 2
    /\ \A i \in 1..Len(refs) : refs[i].wn

\* a Dynamic is Resolved: it has a walkNode that holds the value
Resolved(dr) == dr.wn /\ dr.value

\* C16 as it is stated: Pop on a Root with references returns the last
\* one, with its hash, Resolved and detached, and Root.Refs is the list
\* without its last element.
C16_PopLast_AsStated ==
    [][(ret'.op = "Pop" /\ Len(refs) > 0 /\ Pop) =>
            /\ ret'.val.hash = refs[Len(refs)].hash
            /\ Resolved(ret'.val)
            /\ ret'.val.pos = <<>>
            /\ refs' = SubSeq(refs, 1, Len(refs) - 1)]_vars

\* C16: Pop on a Root with references returns the last one, with its hash
\* and detached, and Root.Refs is the list without its last element.  Pop
\* returns no error exactly if the reference was unpacked or its object is
\* staged or stored, and then the Dynamic it returns is Resolved; with the
\* error (object not found) the Dynamic has a walkNode without a value.
C16_PopLast ==
    [][(ret'.op = "Pop" /\ Len(refs) > 0 /\ Pop) =>
            LET last == refs[Len(refs)]
            IN  /\ ret'.val.hash = last.hash
                /\ ret'.val.pos = <<>>
                /\ refs' = SubSeq(refs, 1, Len(refs) - 1)
                /\ ret'.err = NilErr <=>
                        (last.wn \/ last.hash \in DOMAIN unsaved \cup DOMAIN store)
                /\ ret'.err = NilErr => Resolved(ret'.val)
                /\ ret'.err # NilErr =>
                        /\ ret'.err = ErrNotFound(last.hash)
                        /\ ret'.val.wn /\ ~ret'.val.value]_vars

\* Pop has read the object of the last of several references from the
\* store and returned the reference Resolved and detached
C16_Witness ==
    /\ ret.op = "Pop" /\ ret.err = NilErr /\ ret.views = 1
    /\ Resolved(ret.val) /\ ret.val.pos = <<>>
    /\ ret.val.hash # ZeroHash
    /\ Len(refs) >= 1

C18_AllOfSchema ==
    cret.op = "GetAllOfSchema" =>
        /\ cret.val =
              {k \in DOMAIN ds : DeserializeRaw(ds[k]).SchemaKey = cret.arg}
        /\ \A s2 \in SchemaKeys, d \in ContainerData :
              LET k == ContainerSaveResult(EmptyMap, s2, d).key
              IN  k \in DOMAIN ds => (k \in cret.val <=> s2 = cret.arg)
        /\ cret.arg = schemaType => DOMAIN schemas \subseteq cret.val

\* GetAllOfSchema has returned some of the stored keys and not others,
\* for a schema that SaveSchema saved
C18_Witness ==
    /\ cret.op = "GetAllOfSchema"
    /\ cret.arg \in DOMAIN schemas
    /\ Cardinality(cret.val) >= 2
    /\ Cardinality(DOMAIN ds \ cret.val) >= 2

\* C19: every Pop on a Root with references makes Root.Refs shorter by one
\* and leaves the references before the last as they are.  When the last
\* one is not unpacked and its object is neither staged nor stored, Pop
\* returns the error and the reference it has removed.
C19_PopRemovesOnError ==
    [][(ret'.op = "Pop" /\ Len(refs) > 0 /\ Pop) =>
            LET last == refs[Len(refs)]
            IN  /\ Len(refs') = Len(refs) - 1
                /\ \A i \in 1..Len(refs') : refs'[i] = refs[i]
                /\ (~last.wn /\ last.hash \notin DOMAIN unsaved \cup DOMAIN store) =>
                        /\ ret'.err # NilErr
                        /\ ret'.val.hash = last.hash]_vars

\* Pop has returned an error and the reference it could not unpack, and
\* the Root holds the references before it
C19_Witness ==
    /\ ret.op = "Pop" /\ ret.err = ErrNotFound(ret.val.hash)
    /\ ~ret.val.value
    /\ Len(refs) >= 1

\* C20: after a Start that returned no error, a Close that is called
\* returns; done is closed at most once; when Close has returned, handle
\* has returned, the pool does not listen and done was closed once; and
\* from then on no step takes an event from those that wait.
C20_CloseReturns ==
    /\ (started = "ok" /\ cpc = "rpcClose") ~> (cpc = "returned")
    /\ [](done <= 1)
    /\ [](cpc = "returned" =>
            hpc = "returned" /\ ~listening /\ done = 1)
    /\ [][cpc = "returned" =>
            \A k \in EventKinds : pending'[k] >= pending[k]]_vars

\* Close has returned after a Start without error while a send result, a
\* disconnect, a tick, an RPC event and a message wait
C20_Witness ==
    /\ started = "ok"
    /\ cpc = "returned"
    /\ \A k \in EventKinds : pending[k] > 0

====
